---- MODULE Spec2Model ----
\* flattenHit of x-pack/plugins/maps/server/mvt/util.ts: the flattening of an
\* Elasticsearch hit into the property map of a vector-tile feature.
\* JavaScript values are tagged records, objects and arrays live in a heap
\* keyed by address, so that identity (same object, fresh object) and
\* mutation of the inputs are observable.
EXTENDS Integers, Sequences, FiniteSets, TLC

VARIABLES heap, hit, geometryField, pc, flat, result,
          second,
          store, connector, finds, call

\* the first flattenHit call and the heap
flattenVars == <<heap, hit, geometryField, pc, flat, result>>

\* a second flattenHit call, and the CaseService with its saved objects
otherVars == <<second, store, connector, finds, call>>

vars == <<heap, hit, geometryField, pc, flat, result, second, store, connector, finds, call>>

\* ---------------------------------------------------------------- bounds
\* total number of saved objects (cases, sub cases, comments) in the store
MaxObjects == 3
\* total number of keys in a generated _source tree
MaxKeys == 4
\* length of the arrays in a generated fields table
MaxFieldVals == 2

\* ------------------------------------------------------ JavaScript values
Undefined == [t |-> "undefined"]
Null == [t |-> "null"]
Num(s) == [t |-> "number", s |-> s]
Str(cs) == [t |-> "string", cs |-> cs]
Ref(a) == [t |-> "object", a |-> a]

\* typeof v
TypeOf(v) == IF v.t = "null" THEN "object" ELSE v.t

\* Array.isArray(v)
IsArray(h, v) == v.t = "object" /\ h[v.a].arr

\* the truthiness of v in `if (v)` and `v || d`
Truthy(v) ==
  CASE v.t = "undefined" -> FALSE
    [] v.t = "null" -> FALSE
    [] v.t = "number" -> v.s # "0"
    [] v.t = "string" -> v.cs # <<>>
    [] OTHER -> TRUE

Range(s) == {s[i] : i \in 1..Len(s)}

IndexKeys(n) == [i \in 1..n |-> ToString(i - 1)]

\* the keys `for (const key in v)` visits, in order
ForInKeys(h, v) ==
  CASE v.t = "object" -> h[v.a].keys
    [] v.t = "string" -> IndexKeys(Len(v.cs))
    [] OTHER -> <<>>

\* v[key]
GetProp(h, v, key) ==
  CASE v.t = "object" ->
         IF key \in Range(h[v.a].keys) THEN h[v.a].vals[key] ELSE Undefined
    [] v.t = "string" ->
         IF key \in Range(IndexKeys(Len(v.cs)))
         THEN Str(<<v.cs[CHOOSE i \in 1..Len(v.cs) : ToString(i - 1) = key]>>)
         ELSE Undefined
    [] OTHER -> Undefined

\* `v.hasOwnProperty(key)` throws a TypeError when v has an own property
\* named hasOwnProperty that is not callable (no value here is a function)
HasOwnPropertyThrows(h, v) ==
  v.t = "object" /\ "hasOwnProperty" \in Range(h[v.a].keys)

\* the heap after o[key] = v on the object at address a
SetProp(h, a, key, v) ==
  LET o == h[a]
      ks == IF key \in Range(o.keys) THEN o.keys ELSE Append(o.keys, key)
  IN [h EXCEPT ![a] = [arr |-> o.arr, keys |-> ks,
                       vals |-> [k \in Range(ks) |-> IF k = key THEN v ELSE o.vals[k]]]]

\* {} : an object with no own property
EmptyObject == [arr |-> FALSE, keys |-> <<>>, vals |-> <<>>]

\* ----------------------------------------------------------- input trees
\* A document is written as a tree literal and laid out in the heap; the
\* address of a nested object is the address of its parent, "/" and its key.
TArr(es) == [t |-> "array", elems |-> es]
TObj(ks, vs) == [t |-> "obj", keys |-> ks, elems |-> vs]

IsNode(tr) == tr.t \in {"array", "obj"}

NodeKeys(tr) == IF tr.t = "array" THEN IndexKeys(Len(tr.elems)) ELSE tr.keys

ValOf(tr, addr) == IF IsNode(tr) THEN Ref(addr) ELSE tr

RECURSIVE Alloc(_, _)
RECURSIVE AllocChildren(_, _, _)
AllocChildren(tr, addr, i) ==
  IF i > Len(tr.elems) THEN <<>>
  ELSE Alloc(tr.elems[i], addr \o "/" \o NodeKeys(tr)[i]) @@ AllocChildren(tr, addr, i + 1)

Alloc(tr, addr) ==
  IF ~IsNode(tr) THEN <<>>
  ELSE LET ks == NodeKeys(tr) IN
       (addr :> [arr |-> tr.t = "array", keys |-> ks,
                 vals |-> [k \in Range(ks) |->
                             LET i == CHOOSE j \in 1..Len(ks) : ks[j] = k
                             IN ValOf(tr.elems[i], addr \o "/" \o k)]])
       @@ AllocChildren(tr, addr, 1)

\* -------------------------------------------------------- input documents
Absent == [t |-> "absent"]

\* the object literal with the given keys, without the entries that are Absent
MkObj(ks, vs) ==
  LET keep == SelectSeq([i \in 1..Len(ks) |-> i], LAMBDA i : vs[i] # Absent)
  IN TObj([j \in 1..Len(keep) |-> ks[keep[j]]], [j \in 1..Len(keep) |-> vs[keep[j]]])

Hit(index, id, source, fields) ==
  MkObj(<<"_index", "_id", "_source", "fields">>, <<index, id, source, fields>>)

RECURSIVE ObjsOver(_, _)
\* the objects whose keys are a subsequence of ks and whose values are in V
ObjsOver(ks, V) ==
  IF ks = <<>> THEN {TObj(<<>>, <<>>)}
  ELSE LET rest == ObjsOver(Tail(ks), V)
       IN rest \cup {TObj(<<Head(ks)>> \o r.keys, <<v>> \o r.elems) : r \in rest, v \in V}

Nums(n) == [i \in 1..n |-> Num(ToString(i))]

SourceLeaves == {Num("1"), Null, TArr(Nums(3))}

SrcKeys(level) == IF level = 0 THEN <<"a", "geom">> ELSE <<"geom", "other">>

RECURSIVE SourceObjs(_, _)
\* the _source trees with at most n keys in total
SourceVals(n, level) == SourceLeaves \cup SourceObjs(n, level)

SourceObjs(n, level) ==
  LET ks == SrcKeys(level) IN
  {TObj(<<>>, <<>>)}
  \cup (IF n >= 1
        THEN {TObj(<<k>>, <<v>>) : k \in Range(ks), v \in SourceVals(n - 1, level + 1)}
        ELSE {})
  \cup (IF n >= 2
        THEN UNION {{TObj(ks, <<v1, v2>>) : v1 \in SourceVals(i, level + 1),
                                            v2 \in SourceVals(n - 2 - i, level + 1)}
                    : i \in 0..(n - 2)}
        ELSE {})

Logs1 == Str(<<"l", "o", "g", "s", "-", "1">>)
Abc == Str(<<"a", "b", "c">>)

\* well-formed hits without a fields table
SourceDocs == {Hit(Logs1, Abc, s, Absent) : s \in SourceObjs(MaxKeys, 0)}

FieldEntryVals == {Num("7"), Null} \cup {TArr(Nums(n)) : n \in 0..MaxFieldVals}

FieldsTables == ObjsOver(<<"a", "geom", "_id">>, FieldEntryVals)

\* hits with a fields table
FieldsDocs == {Hit(Logs1, Abc, s, f) : s \in SourceObjs(1, 0), f \in FieldsTables}

OddSources ==
  { Absent, Null, Num("5"), Str(<<"x", "y">>),
    TArr(<<Num("1"), TObj(<<"b">>, <<Num("2")>>)>>),
    TObj(<<"hasOwnProperty">>, <<Num("1")>>),
    TObj(<<"a", "hasOwnProperty">>, <<Num("1"), Null>>),
    TObj(<<"a">>, <<TObj(<<"hasOwnProperty">>, <<Num("1")>>)>>),
    TObj(<<"_index", "_id">>, <<Str(<<"z">>), Num("9")>>),
    TObj(<<"", "a">>, <<TObj(<<"b">>, <<Num("1")>>), Num("2")>>) }

OddFields ==
  { Absent, Null, Num("0"), Num("5"), Str(<<"x">>),
    TArr(<<Num("1"), TArr(Nums(2))>>),
    TObj(<<"hasOwnProperty">>, <<TArr(Nums(1))>>),
    TObj(<<"_index", "f">>, <<TArr(<<Str(<<"z">>)>>), TArr(Nums(2))>>) }

\* hits whose parts are missing or not shaped as documented
OddDocs ==
  {Hit(ix, id, s, f) : ix \in {Absent, Logs1}, id \in {Absent, Abc},
                       s \in OddSources, f \in OddFields}

\* the example of the specification
ExampleDoc ==
  Hit(Logs1, Abc,
      TObj(<<"a", "geom">>,
           << TObj(<<"b", "c">>, <<Num("1"), TArr(Nums(3))>>),
              TObj(<<"type", "coordinates">>, <<Str(<<"P", "o", "i", "n", "t">>), TArr(Nums(2))>>) >>),
      Absent)

Docs == SourceDocs \cup FieldsDocs \cup OddDocs \cup {ExampleDoc}

GeometryFields == {"", "geom", "a.geom", "a"}

HitAddr == "hit"

\* ------------------------------------------------------------ the code
\* the value tested, were it the property being visited
CheckedValueCurrent(value, current) == current

\* the value whose type decides the recursion of flattenSource: the local
\* `value`, declared by `let value;` and not yet assigned when it is tested
CheckedValue(value, current) == value

RECURSIVE flattenSource(_, _, _, _, _)
RECURSIVE SourceLoop(_, _, _, _, _, _, _)
\* one iteration of the for-in loop of flattenSource, and the rest of the loop
SourceLoop(h, accum, path, properties, geomField, keys, i) ==
  IF i > Len(keys) THEN [heap |-> h, raised |-> FALSE]
  ELSE IF HasOwnPropertyThrows(h, properties) THEN [heap |-> h, raised |-> TRUE]
  ELSE
    LET key == keys[i]
        newKey == IF path # "" THEN path \o "." \o key ELSE key
        value == Undefined
        current == GetProp(h, properties, key)
        checked == CheckedValue(value, current)
    IN IF geomField = newKey
       THEN SourceLoop(SetProp(h, accum.a, newKey, current),
                       accum, path, properties, geomField, keys, i + 1)
       ELSE IF current # Null /\ TypeOf(checked) = "object" /\ ~IsArray(h, checked)
       THEN LET r == flattenSource(h, accum, newKey, current, geomField)
            IN IF r.raised THEN r
               ELSE SourceLoop(SetProp(r.heap, accum.a, newKey, accum),
                               accum, path, properties, geomField, keys, i + 1)
       ELSE SourceLoop(SetProp(h, accum.a, newKey, current),
                       accum, path, properties, geomField, keys, i + 1)

\* flattenSource(accum, path, properties = {}, geometryField): the heap after
\* the call, or raised when the call throws; accum is an object at every call
flattenSource(h, accum, path, properties, geomField) ==
  SourceLoop(h, accum, path, properties, geomField, ForInKeys(h, properties), 1)

\* what flattenFields stores for an entry whose value is `value`, were the
\* whole array kept
FieldValueWhole(h, value) == value

\* what flattenFields stores for an entry whose value is `value`
FieldValue(h, value) ==
  IF IsArray(h, value) THEN GetProp(h, value, "0") ELSE value

RECURSIVE FieldsLoop(_, _, _, _, _)
\* one iteration of the for-in loop of flattenFields, and the rest of the loop
FieldsLoop(h, accum, fields, keys, i) ==
  IF i > Len(keys) THEN [heap |-> h, raised |-> FALSE]
  ELSE IF HasOwnPropertyThrows(h, fields) THEN [heap |-> h, raised |-> TRUE]
  ELSE
    LET key == keys[i]
        value == GetProp(h, fields, key)
    IN FieldsLoop(SetProp(h, accum.a, key, FieldValue(h, value)),
                  accum, fields, keys, i + 1)

\* flattenFields, were the entries collapsed in place in the fields table
flattenFieldsInPlace(h, accum, fields) ==
  FieldsLoop(h, IF fields.t = "object" THEN fields ELSE accum,
             fields, ForInKeys(h, fields), 1)

\* flattenFields, were a key the map already holds left as it is
flattenFieldsKeepExisting(h, accum, fields) ==
  FieldsLoop(h, accum, fields,
             SelectSeq(ForInKeys(h, fields), LAMBDA k : k \notin Range(h[accum.a].keys)), 1)

\* flattenFields(accum, fields)
flattenFields(h, accum, fields) ==
  FieldsLoop(h, accum, fields, ForInKeys(h, fields), 1)

\* the guard of flattenHit, were every document taken as present
HitPresentAlways(hitv) == TRUE

\* if (hit)
HitPresent(hitv) == Truthy(hitv)

\* the meta fields, were they attached only where the key is still free
AttachMetaFieldsIfFree(h, accum, hitv) ==
  LET h1 == IF "_index" \in Range(h[accum.a].keys) THEN h
            ELSE SetProp(h, accum.a, "_index", GetProp(h, hitv, "_index"))
  IN IF "_id" \in Range(h1[accum.a].keys) THEN h1
     ELSE SetProp(h1, accum.a, "_id", GetProp(h1, hitv, "_id"))

\* flat._index = hit._index; flat._id = hit._id;
AttachMetaFields(h, accum, hitv) ==
  LET h1 == SetProp(h, accum.a, "_index", GetProp(h, hitv, "_index"))
  IN SetProp(h1, accum.a, "_id", GetProp(h1, hitv, "_id"))

\* the address of the object `const flat = {}` creates
FlatAddr == "flat"

\* flattenHit(geometryField, hit) as one call that builds its map at the
\* fresh address addr: the heap after the call, or raised when it throws
flattenHit(h, addr, geomField, hitv) ==
  LET h0 == (addr :> EmptyObject) @@ h
      accum == Ref(addr)
  IN IF ~HitPresent(hitv) THEN [heap |-> h0, raised |-> FALSE]
     ELSE LET r1 == flattenSource(h0, accum, "", GetProp(h0, hitv, "_source"), geomField)
          IN IF r1.raised THEN r1
             ELSE LET fields == GetProp(r1.heap, hitv, "fields")
                      r2 == IF Truthy(fields) THEN flattenFields(r1.heap, accum, fields)
                            ELSE r1
                  IN IF r2.raised THEN r2
                     ELSE [heap |-> AttachMetaFields(r2.heap, accum, hitv), raised |-> FALSE]

\* ------------------------------------------------------- the state machine
\* no call is being made
NoCall == [pc |-> "none"]

\* no saved object exists
NoStore == [cases |-> <<>>, subCases |-> <<>>, comments |-> <<>>]

Init ==
  /\ geometryField \in GeometryFields
  /\ \/ /\ hit \in {Undefined, Null}
        /\ heap = <<>>
     \/ \E doc \in Docs :
          /\ hit = Ref(HitAddr)
          /\ heap = Alloc(doc, HitAddr)
  /\ pc = "call"
  /\ flat = Undefined
  /\ result = Undefined
  /\ second = NoCall
  /\ store = NoStore /\ connector = FALSE /\ finds = <<>> /\ call = NoCall

\* const flat = {}; if (hit) {
Enter ==
  /\ pc = "call"
  /\ heap' = (FlatAddr :> EmptyObject) @@ heap
  /\ flat' = Ref(FlatAddr)
  /\ pc' = IF HitPresent(hit) THEN "source" ELSE "return"
  /\ UNCHANGED <<hit, geometryField, result>>
  /\ UNCHANGED otherVars

\* flattenSource(flat, '', hit._source, geometryField);
Source ==
  /\ pc = "source"
  /\ LET r == flattenSource(heap, flat, "", GetProp(heap, hit, "_source"), geometryField)
     IN /\ heap' = r.heap
        /\ pc' = IF r.raised THEN "raised" ELSE "fields"
  /\ UNCHANGED <<hit, geometryField, flat, result>>
  /\ UNCHANGED otherVars

\* the fields step, were the entry named by geometryField left out
FieldsSkipGeometry ==
  /\ pc = "fields"
  /\ LET fields == GetProp(heap, hit, "fields")
         r == IF Truthy(fields)
              THEN FieldsLoop(heap, flat, fields,
                              SelectSeq(ForInKeys(heap, fields), LAMBDA k : k # geometryField), 1)
              ELSE [heap |-> heap, raised |-> FALSE]
     IN /\ heap' = r.heap
        /\ pc' = IF r.raised THEN "raised" ELSE "meta"
  /\ UNCHANGED <<hit, geometryField, flat, result>>
  /\ UNCHANGED otherVars

\* if (hit.fields) { flattenFields(flat, hit.fields); }
Fields ==
  /\ pc = "fields"
  /\ LET fields == GetProp(heap, hit, "fields")
         r == IF Truthy(fields) THEN flattenFields(heap, flat, fields)
              ELSE [heap |-> heap, raised |-> FALSE]
     IN /\ heap' = r.heap
        /\ pc' = IF r.raised THEN "raised" ELSE "meta"
  /\ UNCHANGED <<hit, geometryField, flat, result>>
  /\ UNCHANGED otherVars

\* flat._index = hit._index; flat._id = hit._id;
Meta ==
  /\ pc = "meta"
  /\ heap' = AttachMetaFields(heap, flat, hit)
  /\ pc' = "return"
  /\ UNCHANGED <<hit, geometryField, flat, result>>
  /\ UNCHANGED otherVars

\* return flat;
Return ==
  /\ pc = "return"
  /\ result' = flat
  /\ pc' = "done"
  /\ UNCHANGED <<heap, hit, geometryField, flat>>
  /\ UNCHANGED otherVars

Next == Enter \/ Source \/ Fields \/ Meta \/ Return

Spec == Init /\ [][Next]_vars

TypeOK == pc \in {"call", "source", "fields", "meta", "return", "done", "raised", "idle"}

\* ------------------------------------------- two calls, in any interleaving
\* the documents of the two calls
PairDocs ==
  {Hit(Logs1, Abc, s, f) : s \in SourceObjs(1, 0),
                           f \in {Absent, TObj(<<"a", "f">>, <<TArr(Nums(2)), Num("7")>>)}}
  \cup {Hit(Logs1, Abc, TObj(<<"hasOwnProperty">>, <<Num("1")>>), Absent)}

PairGeometryFields == {"geom", "a"}

HitAddr2 == "hit2"

\* the address of the map of the second call, were one map shared by the calls
FlatAddrShared == FlatAddr

\* the address of the object `const flat = {}` creates in the second call
FlatAddr2 == "flat2"

InitPair ==
  /\ geometryField \in PairGeometryFields
  /\ hit = Ref(HitAddr)
  /\ \E d1 \in PairDocs, d2 \in PairDocs, same \in BOOLEAN, g2 \in PairGeometryFields :
       /\ heap = Alloc(d1, HitAddr) @@ (IF same THEN <<>> ELSE Alloc(d2, HitAddr2))
       /\ second = [pc |-> "call", hit |-> IF same THEN Ref(HitAddr) ELSE Ref(HitAddr2),
                    geometryField |-> g2, flat |-> Undefined, result |-> Undefined]
  /\ pc = "call"
  /\ flat = Undefined
  /\ result = Undefined
  /\ store = NoStore /\ connector = FALSE /\ finds = <<>> /\ call = NoCall

\* const flat = {}; if (hit) {
Enter2 ==
  /\ second.pc = "call"
  /\ heap' = (FlatAddr2 :> EmptyObject) @@ heap
  /\ second' = [second EXCEPT !.flat = Ref(FlatAddr2),
                              !.pc = IF HitPresent(second.hit) THEN "source" ELSE "return"]
  /\ UNCHANGED <<hit, geometryField, pc, flat, result, store, connector, finds, call>>

\* flattenSource(flat, '', hit._source, geometryField);
Source2 ==
  /\ second.pc = "source"
  /\ LET r == flattenSource(heap, second.flat, "", GetProp(heap, second.hit, "_source"),
                            second.geometryField)
     IN /\ heap' = r.heap
        /\ second' = [second EXCEPT !.pc = IF r.raised THEN "raised" ELSE "fields"]
  /\ UNCHANGED <<hit, geometryField, pc, flat, result, store, connector, finds, call>>

\* if (hit.fields) { flattenFields(flat, hit.fields); }
Fields2 ==
  /\ second.pc = "fields"
  /\ LET fields == GetProp(heap, second.hit, "fields")
         r == IF Truthy(fields) THEN flattenFields(heap, second.flat, fields)
              ELSE [heap |-> heap, raised |-> FALSE]
     IN /\ heap' = r.heap
        /\ second' = [second EXCEPT !.pc = IF r.raised THEN "raised" ELSE "meta"]
  /\ UNCHANGED <<hit, geometryField, pc, flat, result, store, connector, finds, call>>

\* flat._index = hit._index; flat._id = hit._id;
Meta2 ==
  /\ second.pc = "meta"
  /\ heap' = AttachMetaFields(heap, second.flat, second.hit)
  /\ second' = [second EXCEPT !.pc = "return"]
  /\ UNCHANGED <<hit, geometryField, pc, flat, result, store, connector, finds, call>>

\* return flat;
Return2 ==
  /\ second.pc = "return"
  /\ second' = [second EXCEPT !.result = second.flat, !.pc = "done"]
  /\ UNCHANGED <<heap, hit, geometryField, pc, flat, result, store, connector, finds, call>>

NextPair ==
  \/ Enter \/ Source \/ Fields \/ Meta \/ Return
  \/ Enter2 \/ Source2 \/ Fields2 \/ Meta2 \/ Return2

SpecPair == InitPair /\ [][NextPair]_vars

\* ------------------------------------------------------------ CaseService
\* x-pack/plugins/cases/server/services/cases/index.ts. A call of a public
\* method is one action; the options of every soClient.find it issues are
\* appended to `finds`, in the order of the calls.
CASE_SAVED_OBJECT == "cases"
SUB_CASE_SAVED_OBJECT == "cases-sub-case"
CASE_COMMENT_SAVED_OBJECT == "cases-comments"

defaultSortField == "created_at"
defaultPage == 1
defaultPerPage == 20

\* the perPage of soClient.find when the options give none
FindDefaultPerPage == 20

\* KueryNode, as built by nodeBuilder.is / nodeBuilder.and / nodeBuilder.or
NodeIs(field, value) == [op |-> "is", field |-> field, value |-> value]
NodeAnd(nodes) == [op |-> "and", nodes |-> nodes]
NodeOr(nodes) == [op |-> "or", nodes |-> nodes]

\* `${type}.attributes.${attr}`
AttrField(type, attr) == [type |-> type, attr |-> attr]

RECURSIVE Matches(_, _)
\* whether the saved object so satisfies the KueryNode node
Matches(node, so) ==
  CASE node.op = "is" ->
         /\ so.type = node.field.type
         /\ node.field.attr \in DOMAIN so.attributes
         /\ so.attributes[node.field.attr] = node.value
    [] node.op = "and" -> \A i \in 1..Len(node.nodes) : Matches(node.nodes[i], so)
    [] node.op = "or" -> \E i \in 1..Len(node.nodes) : Matches(node.nodes[i], so)

\* a saved object
SavedObj(type, id, attributes, references) ==
  [type |-> type, id |-> id, attributes |-> attributes, references |-> references]

Reference(type, id) == [type |-> type, id |-> id]

\* the properties of an options object; none when the object is undefined
Props(o) == IF o = Undefined THEN <<>> ELSE o

Has(o, key) == key \in DOMAIN Props(o)

\* o?.page !== undefined, o?.perPage !== undefined: a page or perPage that is
\* given is a number
Defined(o, key) == Has(o, key)

\* o?.filter != null
NotNullish(o, key) == Has(o, key) /\ o[key] \notin {Undefined, Null}

\* o?.[key] ?? dflt, for page and perPage
OrDefault(o, key, dflt) == IF Has(o, key) THEN o[key] ELSE dflt

MinOf(a, b) == IF a < b THEN a ELSE b

\* the saved objects of a type, in the order the store returns them
ObjectsOfType(st, type) ==
  CASE type = CASE_SAVED_OBJECT -> st.cases
    [] type = SUB_CASE_SAVED_OBJECT -> st.subCases
    [] type = CASE_COMMENT_SAVED_OBJECT -> st.comments
    [] OTHER -> <<>>

\* the attributes find returns: all of them, or the ones named by a
\* non-empty `fields`
Project(so, o) ==
  IF Has(o, "fields") /\ o.fields # <<>>
  THEN [so EXCEPT !.attributes =
          [a \in DOMAIN so.attributes \cap Range(o.fields) |-> so.attributes[a]]]
  ELSE so

\* soClient.find(o): the objects of o.type that have one of the references
\* o.hasReference and satisfy o.filter, the page asked for, and their number
Find(st, o) ==
  LET all == ObjectsOfType(st, o.type)
      ok(so) ==
        /\ Has(o, "hasReference") =>
             \E i \in 1..Len(o.hasReference), j \in 1..Len(so.references) :
               o.hasReference[i] = so.references[j]
        /\ NotNullish(o, "filter") => Matches(o.filter, so)
      found == SelectSeq(all, ok)
      page == OrDefault(o, "page", 1)
      perPage == OrDefault(o, "perPage", FindDefaultPerPage)
      first == (page - 1) * perPage + 1
      last == MinOf(page * perPage, Len(found))
  IN [saved_objects |-> [i \in 1..(IF last >= first THEN last - first + 1 ELSE 0)
                           |-> Project(found[first + i - 1], o)],
      total |-> Len(found), page |-> page, per_page |-> perPage]

\* a response and the finds issued so far
Done(resp, log) == [resp |-> resp, log |-> log]

\* findCases({options})
findCases(st, log, options) ==
  LET o == ("type" :> CASE_SAVED_OBJECT) @@ Props(options)
             @@ ("sortField" :> defaultSortField)
  IN Done(Find(st, o), Append(log, o))

\* the paging test, were it to ask for both page and perPage
CallerPagesBoth(options) == Defined(options, "page") /\ Defined(options, "perPage")

\* options?.page !== undefined || options?.perPage !== undefined
CallerPages(options) == Defined(options, "page") \/ Defined(options, "perPage")

\* findSubCases({options})
findSubCases(st, log, options) ==
  IF CallerPages(options)
  THEN LET o == ("type" :> SUB_CASE_SAVED_OBJECT) @@ Props(options)
                  @@ ("sortField" :> defaultSortField)
       IN Done(Find(st, o), Append(log, o))
  ELSE LET o1 == ("type" :> SUB_CASE_SAVED_OBJECT) @@ Props(options)
                   @@ [fields |-> <<>>, page |-> 1, perPage |-> 1,
                       sortField |-> defaultSortField]
           stats == Find(st, o1)
           o2 == ("type" :> SUB_CASE_SAVED_OBJECT) @@ Props(options)
                   @@ [page |-> 1, perPage |-> stats.total, sortField |-> defaultSortField]
       IN Done(Find(st, o2), Append(Append(log, o1), o2))

\* asArray(id)
asArray(id) ==
  CASE id = Undefined -> <<>>
    [] id.t = "array" -> id.elems
    [] OTHER -> <<id.s>>

\* an id argument: one id, or an array of ids
OneId(s) == [t |-> "string", s |-> s]
ManyIds(ids) == [t |-> "array", elems |-> ids]

\* getAllComments({id, options})
getAllComments(st, log, id, options) ==
  IF CallerPages(options)
  THEN LET o == Props(options)
                  @@ [type |-> CASE_COMMENT_SAVED_OBJECT, sortField |-> defaultSortField]
       IN Done(Find(st, o), Append(log, o))
  ELSE LET o1 == Props(options)
                   @@ [type |-> CASE_COMMENT_SAVED_OBJECT, fields |-> <<>>, page |-> 1,
                       perPage |-> 1, sortField |-> defaultSortField]
           stats == Find(st, o1)
           o2 == Props(options)
                   @@ [type |-> CASE_COMMENT_SAVED_OBJECT, page |-> 1,
                       perPage |-> stats.total, sortField |-> defaultSortField]
       IN Done(Find(st, o2), Append(Append(log, o1), o2))

\* the response of the comment getters for no id
NoComments(options) ==
  [saved_objects |-> <<>>, total |-> 0,
   per_page |-> OrDefault(options, "perPage", defaultPerPage),
   page |-> OrDefault(options, "page", defaultPage)]

AssociationTypeFilter ==
  NodeIs(AttrField(CASE_COMMENT_SAVED_OBJECT, "associationType"), "case")

\* the options getAllCaseComments would pass on, were its filter to win
\* over the caller's
CaseCommentOptionsFilterLast(options, refs, filter) ==
  [hasReferenceOperator |-> "OR", hasReference |-> refs, filter |-> filter]
    @@ Props(options)

\* { hasReferenceOperator: 'OR', hasReference: refs, filter, ...options }
CaseCommentOptions(options, refs, filter) ==
  Props(options)
    @@ [hasReferenceOperator |-> "OR", hasReference |-> refs, filter |-> filter]

\* the filter getAllCaseComments computes
CaseCommentFilter(options, includeSubCaseComments) ==
  IF ~includeSubCaseComments
  THEN IF NotNullish(options, "filter")
       THEN NodeAnd(<<options.filter, AssociationTypeFilter>>)
       ELSE AssociationTypeFilter
  ELSE Undefined

\* getAllCaseComments({id, options, includeSubCaseComments = false})
getAllCaseComments(st, log, id, options, includeSubCaseComments) ==
  LET refs == [i \in 1..Len(asArray(id)) |-> Reference(CASE_SAVED_OBJECT, asArray(id)[i])]
  IN IF Len(refs) <= 0 THEN Done(NoComments(options), log)
     ELSE getAllComments(st, log, id,
            CaseCommentOptions(options, refs,
                               CaseCommentFilter(options, includeSubCaseComments)))

\* getAllSubCaseComments({id, options})
getAllSubCaseComments(st, log, id, options) ==
  LET refs == [i \in 1..Len(asArray(id)) |-> Reference(SUB_CASE_SAVED_OBJECT, asArray(id)[i])]
  IN IF Len(refs) <= 0 THEN Done(NoComments(options), log)
     ELSE getAllComments(st, log, id,
            Props(options) @@ [hasReferenceOperator |-> "OR", hasReference |-> refs])

\* getCommentsByAssociation({id, associationType, options})
getCommentsByAssociation(st, log, id, associationType, options) ==
  IF associationType = "sub_case"
  THEN getAllSubCaseComments(st, log, id, options)
  ELSE getAllCaseComments(st, log, id, options, FALSE)

\* the one element of a singleton; Only({e(x) : x \in {v}}) is e of the value v
Only(S) == CHOOSE x \in S : TRUE

\* Map.set(key, value) and Map.get(key) ?? dflt; a Map is a function
MapSet(m, key, value) == (key :> value) @@ m

MapGetOr(m, key, dflt) == IF key \in DOMAIN m THEN m[key] ELSE dflt

RECURSIVE CommentsOfEach(_, _, _, _, _)
\* ids.map((id) => getCommentsByAssociation({associationType, id,
\* options: {page: 1, perPage: 1}})): the responses, in the order of ids
CommentsOfEach(st, log, ids, associationType, i) ==
  IF i > Len(ids) THEN Done(<<>>, log)
  ELSE Only({ Only({ Done(<<r.resp>> \o rest.resp, rest.log)
                     : rest \in {CommentsOfEach(st, r.log, ids, associationType, i + 1)} })
              : r \in {getCommentsByAssociation(st, log, OneId(ids[i]), associationType,
                                                [page |-> 1, perPage |-> 1])} })

AlertsFilter ==
  NodeOr(<<NodeIs(AttrField(CASE_COMMENT_SAVED_OBJECT, "type"), "alert"),
           NodeIs(AttrField(CASE_COMMENT_SAVED_OBJECT, "type"), "generated_alert")>>)

\* getID(comments) of getCaseCommentStats
StatsId(comments, refType) ==
  IF Len(comments.saved_objects) > 0
  THEN LET refs == SelectSeq(comments.saved_objects[1].references,
                             LAMBDA ref : ref.type = refType)
       IN IF refs # <<>> THEN refs[1].id ELSE ""
  ELSE ""

RECURSIVE GroupComments(_, _, _)
\* allComments.reduce(...) of getCaseCommentStats
GroupComments(allComments, refType, i) ==
  IF i = 0 THEN <<>>
  ELSE LET acc == GroupComments(allComments, refType, i - 1)
           id == StatsId(allComments[i], refType)
       IN IF id # "" THEN MapSet(acc, id, allComments[i].total) ELSE acc

RECURSIVE AddAlert(_, _, _)
\* one alert more for the id of each of the first i references
AddAlert(acc, references, i) ==
  IF i = 0 THEN acc
  ELSE Only({ MapSet(a, references[i].id, MapGetOr(a, references[i].id, 0) + 1)
              : a \in {AddAlert(acc, references, i - 1)} })

RECURSIVE groupTotalAlertsByID(_, _)
\* groupTotalAlertsByID({comments}): the number of alerts by referenced id,
\* every alert comment counting for one alert
groupTotalAlertsByID(comments, i) ==
  IF i = 0 THEN <<>>
  ELSE AddAlert(groupTotalAlertsByID(comments, i - 1),
                comments.saved_objects[i].references,
                Len(comments.saved_objects[i].references))

\* refType, were it the type of a case for either association
RefTypeOfCase(associationType) == CASE_SAVED_OBJECT

\* refType of getCaseCommentStats
RefType(associationType) ==
  IF associationType = "case" THEN CASE_SAVED_OBJECT ELSE SUB_CASE_SAVED_OBJECT

\* getCaseCommentStats({ids, associationType})
getCaseCommentStats(st, log, ids, associationType) ==
  IF Len(ids) <= 0
  THEN Done([commentTotals |-> <<>>, alertTotals |-> <<>>], log)
  ELSE Only({ Only({
         Done([commentTotals |-> GroupComments(allComments.resp, RefType(associationType),
                                               Len(allComments.resp)),
               alertTotals |-> groupTotalAlertsByID(alerts.resp,
                                                    Len(alerts.resp.saved_objects))],
              alerts.log)
         : alerts \in {getCommentsByAssociation(st, allComments.log, ManyIds(ids),
                                                associationType, [filter |-> AlertsFilter])} })
         : allComments \in {CommentsOfEach(st, log, ids, associationType, 1)} })

\* flattenSubCaseSavedObject({savedObject, totalComment, totalAlerts})
flattenSubCaseSavedObject(savedObject, totalComment, totalAlerts) ==
  [id |-> savedObject.id, attributes |-> savedObject.attributes,
   totalComment |-> totalComment, totalAlerts |-> totalAlerts]

\* flattenCaseSavedObject({savedObject, totalComment, totalAlerts, subCases});
\* subCases is undefined for a case without sub cases
flattenCaseSavedObject(savedObject, totalComment, totalAlerts, subCases) ==
  [id |-> savedObject.id, attributes |-> savedObject.attributes,
   totalComment |-> totalComment, totalAlerts |-> totalAlerts, subCases |-> subCases]

\* ids.map((id) => ({id, type: CASE_SAVED_OBJECT}))
CaseReferences(ids) == [i \in 1..Len(ids) |-> Reference(CASE_SAVED_OBJECT, ids[i])]

IdsOf(objs) == [i \in 1..Len(objs) |-> objs[i].id]

\* getCaseID(subCase) of findSubCasesGroupByCase; "" for undefined
ParentCaseID(subCase) ==
  IF Len(subCase.references) > 0 THEN subCase.references[1].id ELSE ""

\* the map after a sub case, were its list always begun anew
WithSubCaseAlone(accMap, parentCaseID, flattened) ==
  MapSet(accMap, parentCaseID, <<flattened>>)

\* subCaseFromMap === undefined ? accMap.set(parentCaseID, [flattened])
\*                               : subCaseFromMap.push(flattened)
WithSubCase(accMap, parentCaseID, flattened) ==
  MapSet(accMap, parentCaseID, Append(MapGetOr(accMap, parentCaseID, <<>>), flattened))

RECURSIVE GroupSubCases(_, _, _)
\* subCases.saved_objects.reduce(...) of findSubCasesGroupByCase
GroupSubCases(objs, stats, i) ==
  IF i = 0 THEN <<>>
  ELSE Only({ IF ParentCaseID(objs[i]) # ""
              THEN WithSubCase(accMap, ParentCaseID(objs[i]),
                               flattenSubCaseSavedObject(objs[i],
                                 MapGetOr(stats.commentTotals, objs[i].id, 0),
                                 MapGetOr(stats.alertTotals, objs[i].id, 0)))
              ELSE accMap
              : accMap \in {GroupSubCases(objs, stats, i - 1)} })

EmptySubCasesResponse == [subCasesMap |-> <<>>, page |-> 0, perPage |-> 0, total |-> 0]

\* findSubCasesGroupByCase({options, ids})
findSubCasesGroupByCase(st, log, options, ids) ==
  IF options = Undefined THEN Done(EmptySubCasesResponse, log)
  ELSE IF Len(ids) <= 0 THEN Done(EmptySubCasesResponse, log)
  ELSE Only({ Only({
         Done([subCasesMap |-> GroupSubCases(subCases.resp.saved_objects,
                                             subCaseComments.resp,
                                             Len(subCases.resp.saved_objects)),
               page |-> subCases.resp.page, perPage |-> subCases.resp.per_page,
               total |-> subCases.resp.total],
              subCaseComments.log)
         : subCaseComments \in {getCaseCommentStats(st, subCases.log,
                                   IdsOf(subCases.resp.saved_objects), "sub_case")} })
         : subCases \in {findSubCases(st, log,
                           [hasReference |-> CaseReferences(ids)] @@ Props(options))} })

\* findSubCaseStatusStats({options, ids})
findSubCaseStatusStats(st, log, options, ids) ==
  IF Len(ids) <= 0 THEN Done(0, log)
  ELSE Only({ Done(subCases.resp.total, subCases.log)
              : subCases \in {findSubCases(st, log,
                                [page |-> 1, perPage |-> 1, fields |-> <<>>,
                                 hasReference |-> CaseReferences(ids)] @@ Props(options))} })

\* the ids of the collections among the cases found
CollectionIds(objs) ==
  IdsOf(SelectSeq(objs, LAMBDA caseInfo : caseInfo.attributes.type = "collection"))

\* the test of findCasesGroupedByID, were an empty collection never kept
KeepCaseNoStatusTest(caseInfo, hasSubCases, caseOptions) ==
  caseInfo.attributes.type = "individual" \/ hasSubCases

\* caseInfo.attributes.type === CaseType.individual ||
\* subCasesForCase !== undefined || !caseOptions.status
KeepCase(caseInfo, hasSubCases, caseOptions) ==
  \/ caseInfo.attributes.type = "individual"
  \/ hasSubCases
  \/ ~Has(caseOptions, "status")

\* the entry of a case in casesWithComments
CaseWithComments(kept, id, totals, subCasesMap) ==
  flattenCaseSavedObject(
    kept[CHOOSE i \in 1..Len(kept) :
           kept[i].id = id /\ \A j \in (i + 1)..Len(kept) : kept[j].id # id],
    MapGetOr(totals.commentTotals, id, 0),
    MapGetOr(totals.alertTotals, id, 0),
    MapGetOr(subCasesMap, id, Undefined))

\* findCasesGroupedByID({caseOptions, subCaseOptions}); read from the last
\* line up: cases, subCasesResp, the cases kept in casesMap,
\* totalCommentsForCases, and the value returned
findCasesGroupedByID(st, enabled, log, caseOptions, subCaseOptions) ==
  Only({ Only({ Only({ Only({
    Done([casesMap |-> [id \in Range(IdsOf(kept)) |->
                          CaseWithComments(kept, id, totalCommentsForCases.resp,
                                           subCasesResp.resp.subCasesMap)],
          page |-> cases.resp.page, perPage |-> cases.resp.per_page,
          total |-> cases.resp.total],
         totalCommentsForCases.log)
    : totalCommentsForCases \in
        {getCaseCommentStats(st, subCasesResp.log, IdsOf(kept), "case")} })
    : kept \in
        {SelectSeq(cases.resp.saved_objects,
                   LAMBDA caseInfo :
                     KeepCase(caseInfo, caseInfo.id \in DOMAIN subCasesResp.resp.subCasesMap,
                              caseOptions))} })
    : subCasesResp \in
        {IF enabled
         THEN findSubCasesGroupByCase(st, cases.log, subCaseOptions,
                                      CollectionIds(cases.resp.saved_objects))
         ELSE Done([subCasesMap |-> <<>>, page |-> 0, perPage |-> 0], cases.log)} })
    : cases \in {findCases(st, log, caseOptions)} })

\* the options of the second query of findCaseStatusStats, were the
\* caller's options spread last
AllCasesOptionsSpreadLast(caseOptions, total) ==
  Props(caseOptions) @@ [fields |-> <<"type">>, page |-> 1, perPage |-> total]

\* { ...caseOptions, fields: [caseTypeField], page: 1, perPage: casesStats.total }
AllCasesOptions(caseOptions, total) ==
  [fields |-> <<"type">>, page |-> 1, perPage |-> total] @@ Props(caseOptions)

\* findCaseStatusStats({caseOptions, subCaseOptions}); read from the last
\* line up: casesStats, cases, subCasesTotal, and the total returned
findCaseStatusStats(st, enabled, log, caseOptions, subCaseOptions) ==
  Only({ Only({ Only({
    Done(Len(SelectSeq(cases.resp.saved_objects,
                       LAMBDA caseInfo : caseInfo.attributes.type # "collection"))
           + subCasesTotal.resp,
         subCasesTotal.log)
    : subCasesTotal \in
        {IF enabled /\ subCaseOptions # Undefined
         THEN findSubCaseStatusStats(st, cases.log, subCaseOptions,
                                     CollectionIds(cases.resp.saved_objects))
         ELSE Done(0, cases.log)} })
    : cases \in {findCases(st, casesStats.log,
                            AllCasesOptions(caseOptions, casesStats.resp.total))} })
    : casesStats \in {findCases(st, log,
                         [fields |-> <<>>, page |-> 1, perPage |-> 1]
                           @@ Props(caseOptions))} })

\* ------------------------------------------- the saved objects of the store
CaseAttributes == [type : {"individual", "collection"}, status : {"open", "closed"}]

CaseId(i) == "c" \o ToString(i)
SubCaseId(i) == "s" \o ToString(i)
CommentId(i) == "m" \o ToString(i)

\* a sub case references its parent case, or nothing
SubCaseKinds ==
  [attributes : [status : {"open", "closed"}],
   references : {<<>>, <<Reference(CASE_SAVED_OBJECT, CaseId(1))>>,
                 <<Reference(CASE_SAVED_OBJECT, CaseId(2))>>}]

\* a comment of a case references the case; a comment of a sub case
\* references the parent case and the sub case
CommentKinds ==
  [attributes : [type : {"user", "alert"}, associationType : {"case"}],
   references : {<<Reference(CASE_SAVED_OBJECT, CaseId(1))>>,
                 <<Reference(CASE_SAVED_OBJECT, CaseId(2))>>}]
  \cup
  [attributes : [type : {"user", "alert"}, associationType : {"sub_case"}],
   references : {<<Reference(CASE_SAVED_OBJECT, CaseId(1)),
                   Reference(SUB_CASE_SAVED_OBJECT, SubCaseId(1))>>}]

CasesOf(n) ==
  {[i \in 1..n |-> SavedObj(CASE_SAVED_OBJECT, CaseId(i), a[i], <<>>)] :
     a \in [1..n -> CaseAttributes]}

SubCasesOf(n) ==
  {[i \in 1..n |-> SavedObj(SUB_CASE_SAVED_OBJECT, SubCaseId(i), k[i].attributes,
                            k[i].references)] :
     k \in [1..n -> SubCaseKinds]}

CommentsOf(n) ==
  {[i \in 1..n |-> SavedObj(CASE_COMMENT_SAVED_OBJECT, CommentId(i), k[i].attributes,
                            k[i].references)] :
     k \in [1..n -> CommentKinds]}

\* the stores of at most MaxObjects saved objects
Stores ==
  UNION {[cases : CasesOf(nc), subCases : SubCasesOf(ns), comments : CommentsOf(nm)] :
           <<nc, ns, nm>> \in {t \in (0..MaxObjects) \X (0..MaxObjects) \X (0..MaxObjects) :
                                 t[1] + t[2] + t[3] <= MaxObjects}}

\* ------------------------------------------------- the calls of the service
StatusOpen(type) == NodeIs(AttrField(type, "status"), "open")

IdArgs == {Undefined, OneId(CaseId(1)), ManyIds(<<CaseId(1), CaseId(2)>>)}

CommentOptionsArgs ==
  {Undefined, [filter |-> AlertsFilter], [filter |-> Undefined], [page |-> 1, perPage |-> 1]}

GroupedCaseOptionsArgs ==
  {<<>>, [status |-> "open", filter |-> StatusOpen(CASE_SAVED_OBJECT)]}

StatsCaseOptionsArgs ==
  {<<>>, [filter |-> StatusOpen(CASE_SAVED_OBJECT)], [page |-> 2, perPage |-> 1]}

SubCaseOptionsArgs == {Undefined, <<>>, [filter |-> StatusOpen(SUB_CASE_SAVED_OBJECT)]}

FindSubCasesOptionsArgs ==
  {Undefined, <<>>, [page |-> 2], [perPage |-> 1], [page |-> 1, perPage |-> 2],
   [filter |-> StatusOpen(SUB_CASE_SAVED_OBJECT)], [fields |-> <<"status">>]}

SubCaseIdArgs == {Undefined, OneId(SubCaseId(1)), ManyIds(<<SubCaseId(1), SubCaseId(2)>>)}

SubCaseCommentOptionsArgs ==
  {Undefined, [perPage |-> 1], [page |-> 2, perPage |-> 1], [fields |-> <<"type">>],
   [filter |-> AlertsFilter]}

CaseIdsArgs == {<<>>, <<CaseId(1)>>, <<CaseId(1), CaseId(2)>>}

\* the ids and the association type of a call of getCaseCommentStats
CommentStatsArgs ==
  {<<ids, "case">> : ids \in CaseIdsArgs}
  \cup {<<<<SubCaseId(1)>>, "sub_case">>, <<<<SubCaseId(1), SubCaseId(2)>>, "sub_case">>}

InitCases ==
  /\ store \in Stores
  /\ connector \in BOOLEAN
  /\ finds = <<>>
  /\ call = NoCall
  /\ heap = <<>> /\ hit = Undefined /\ geometryField = "" /\ pc = "idle"
  /\ flat = Undefined /\ result = Undefined /\ second = NoCall

\* a call of getAllCaseComments
GetAllCaseComments ==
  /\ call = NoCall
  /\ \E id \in IdArgs, options \in CommentOptionsArgs, includeSubCaseComments \in BOOLEAN :
       \E r \in {getAllCaseComments(store, <<>>, id, options, includeSubCaseComments)} :
          /\ call' = [pc |-> "getAllCaseComments", id |-> id, options |-> options,
                      includeSubCaseComments |-> includeSubCaseComments, ret |-> r.resp]
          /\ finds' = r.log
  /\ UNCHANGED <<flattenVars, second, store, connector>>

\* a call of findCasesGroupedByID
FindCasesGroupedByID ==
  /\ call = NoCall
  /\ \E caseOptions \in GroupedCaseOptionsArgs, subCaseOptions \in SubCaseOptionsArgs :
       \E r \in {findCasesGroupedByID(store, connector, <<>>, caseOptions, subCaseOptions)} :
          /\ call' = [pc |-> "findCasesGroupedByID", caseOptions |-> caseOptions,
                      subCaseOptions |-> subCaseOptions, ret |-> r.resp]
          /\ finds' = r.log
  /\ UNCHANGED <<flattenVars, second, store, connector>>

\* a call of findCaseStatusStats
FindCaseStatusStats ==
  /\ call = NoCall
  /\ \E caseOptions \in StatsCaseOptionsArgs, subCaseOptions \in SubCaseOptionsArgs :
       \E r \in {findCaseStatusStats(store, connector, <<>>, caseOptions, subCaseOptions)} :
          /\ call' = [pc |-> "findCaseStatusStats", caseOptions |-> caseOptions,
                      subCaseOptions |-> subCaseOptions, ret |-> r.resp]
          /\ finds' = r.log
  /\ UNCHANGED <<flattenVars, second, store, connector>>

\* a call of findSubCases
FindSubCases ==
  /\ call = NoCall
  /\ \E options \in FindSubCasesOptionsArgs :
       \E r \in {findSubCases(store, <<>>, options)} :
          /\ call' = [pc |-> "findSubCases", options |-> options, ret |-> r.resp]
          /\ finds' = r.log
  /\ UNCHANGED <<flattenVars, second, store, connector>>

\* a call of getAllSubCaseComments
GetAllSubCaseComments ==
  /\ call = NoCall
  /\ \E id \in SubCaseIdArgs, options \in SubCaseCommentOptionsArgs :
       \E r \in {getAllSubCaseComments(store, <<>>, id, options)} :
          /\ call' = [pc |-> "getAllSubCaseComments", id |-> id, options |-> options,
                      ret |-> r.resp]
          /\ finds' = r.log
  /\ UNCHANGED <<flattenVars, second, store, connector>>

\* a call of findSubCasesGroupByCase
FindSubCasesGroupByCase ==
  /\ call = NoCall
  /\ \E options \in SubCaseOptionsArgs, ids \in CaseIdsArgs :
       \E r \in {findSubCasesGroupByCase(store, <<>>, options, ids)} :
          /\ call' = [pc |-> "findSubCasesGroupByCase", options |-> options, ids |-> ids,
                      ret |-> r.resp]
          /\ finds' = r.log
  /\ UNCHANGED <<flattenVars, second, store, connector>>

\* a call of getCaseCommentStats
GetCaseCommentStats ==
  /\ call = NoCall
  /\ \E args \in CommentStatsArgs :
       \E r \in {getCaseCommentStats(store, <<>>, args[1], args[2])} :
          /\ call' = [pc |-> "getCaseCommentStats", ids |-> args[1],
                      associationType |-> args[2], ret |-> r.resp]
          /\ finds' = r.log
  /\ UNCHANGED <<flattenVars, second, store, connector>>

NextCases ==
  \/ GetAllCaseComments \/ FindCasesGroupedByID \/ FindCaseStatusStats
  \/ FindSubCases \/ GetAllSubCaseComments \/ FindSubCasesGroupByCase
  \/ GetCaseCommentStats

SpecCases == InitCases /\ [][NextCases]_vars

\* ------------------------------------------------- vocabulary of the claims
\* the own properties of the object at address a, as <<key, value>> pairs
PairsOf(h, a) == {<<k, h[a].vals[k]>> : k \in Range(h[a].keys)}

KeysOf(h, a) == Range(h[a].keys)

\* a non-null object that is not an array
IsPlainObject(h, v) == v.t = "object" /\ ~h[v.a].arr

DottedPath(path, key) == IF path # "" THEN path \o "." \o key ELSE key

RECURSIVE Walk(_, _, _, _)
\* the pre-order dotted-path traversal of the tree under v: its leaves
\* (scalars, arrays, nulls, and the value at the path geomField) as
\* <<dotted path, value>> pairs
Walk(h, v, path, geomField) ==
  UNION { LET newKey == DottedPath(path, ForInKeys(h, v)[i])
              current == GetProp(h, v, ForInKeys(h, v)[i])
          IN IF newKey # geomField /\ IsPlainObject(h, current)
             THEN Walk(h, current, newKey, geomField)
             ELSE {<<newKey, current>>}
          : i \in 1..Len(ForInKeys(h, v)) }

RECURSIVE NodesOf(_, _, _)
\* every key of the tree under v, at every depth, with its dotted path
NodesOf(h, v, path) ==
  UNION { LET newKey == DottedPath(path, ForInKeys(h, v)[i])
              current == GetProp(h, v, ForInKeys(h, v)[i])
          IN {<<newKey, current>>}
             \cup (IF IsPlainObject(h, current) THEN NodesOf(h, current, newKey) ELSE {})
          : i \in 1..Len(ForInKeys(h, v)) }

RECURSIVE ToTree(_, _)
\* the value v with the objects and arrays it refers to written out
ToTree(h, v) ==
  IF v.t # "object" THEN v
  ELSE LET o == h[v.a]
           es == [i \in 1..Len(o.keys) |-> ToTree(h, o.vals[o.keys[i]])]
       IN IF o.arr THEN TArr(es) ELSE TObj(o.keys, es)

HitSource == GetProp(heap, hit, "_source")
HitFields == GetProp(heap, hit, "fields")

\* the source walk of a document whose _source is a tree has just returned
AfterSourceWalk == pc = "fields" /\ IsPlainObject(heap, HitSource)

\* flattenHit has returned the map of a present document
Returned == pc = "done" /\ Truthy(hit)

\* ------------------------------------------------------------------ claims
\* C1: for a document whose source tree has no path equal to the geometry
\* field, the keys and values the source walk produces are those of the full
\* pre-order dotted-path traversal of hit._source.
C1_EqualsFullTraversal ==
  (AfterSourceWalk /\ geometryField \notin {n[1] : n \in NodesOf(heap, HitSource, "")})
    => PairsOf(heap, flat.a) = Walk(heap, HitSource, "", geometryField)

\* C2: the keys the source walk produces are exactly the dotted root-to-leaf
\* paths of the source tree, and no value it stores is a nested plain object
\* except the one at the geometry path.
C2_KeysAreLeafPaths ==
  AfterSourceWalk =>
    /\ KeysOf(heap, flat.a) = {l[1] : l \in Walk(heap, HitSource, "", geometryField)}
    /\ \A k \in KeysOf(heap, flat.a) :
         IsPlainObject(heap, heap[flat.a].vals[k]) => k = geometryField

\* C3: a key of the source tree whose full dotted path equals geometryField is
\* stored under that path as the very same value, and none of its members
\* gets a key geometryField.child.
C3_GeometryStoredUntouched ==
  AfterSourceWalk =>
    \A n \in NodesOf(heap, HitSource, "") :
      n[1] = geometryField =>
        /\ <<geometryField, n[2]>> \in PairsOf(heap, flat.a)
        /\ \A i \in 1..Len(ForInKeys(heap, n[2])) :
             (geometryField \o "." \o ForInKeys(heap, n[2])[i]) \notin KeysOf(heap, flat.a)

IsExample ==
  /\ hit = Ref(HitAddr)
  /\ geometryField = "geom"
  /\ ToTree(heap, hit) = ExampleDoc

\* C4: the example of the specification yields exactly a.b, a.c, geom, _index
\* and _id with the values of the document.
C4_Example ==
  (pc = "done" /\ IsExample) =>
    {<<p[1], ToTree(heap, p[2])>> : p \in PairsOf(heap, result.a)}
      = { <<"a.b", Num("1")>>, <<"a.c", TArr(Nums(3))>>,
          <<"geom", TObj(<<"type", "coordinates">>,
                         <<Str(<<"P", "o", "i", "n", "t">>), TArr(Nums(2))>>)>>,
          <<"_index", Logs1>>, <<"_id", Abc>> }

ExpectedField(key) ==
  LET value == GetProp(heap, HitFields, key)
  IN IF IsArray(heap, value) THEN GetProp(heap, value, "0") ELSE value

\* C6: once the fields table has been flattened, every entry's key holds the
\* first element of the entry's array, or the entry's value when it is not an
\* array; in the returned map this still holds of every key but _index, _id.
C6_FieldsFirstElement ==
  (pc \in {"meta", "return", "done"} /\ Truthy(hit) /\ Truthy(HitFields)) =>
    \A i \in 1..Len(ForInKeys(heap, HitFields)) :
      LET key == ForInKeys(heap, HitFields)[i]
      IN (pc = "meta" \/ key \notin {"_index", "_id"})
           => <<key, ExpectedField(key)>> \in PairsOf(heap, flat.a)

\* a returned map made from a table with a multi-element array and a scalar
C6_Witness ==
  /\ Returned
  /\ HitFields.t = "object"
  /\ \E k \in KeysOf(heap, HitFields.a) :
       /\ IsArray(heap, GetProp(heap, HitFields, k))
       /\ Len(ForInKeys(heap, GetProp(heap, HitFields, k))) >= 2
       /\ <<k, Num("1")>> \in PairsOf(heap, result.a)
  /\ \E k \in KeysOf(heap, HitFields.a) :
       /\ GetProp(heap, HitFields, k) = Num("7")
       /\ <<k, Num("7")>> \in PairsOf(heap, result.a)

\* C7: flattenHit raises for no input.
C7_NeverRaises == pc # "raised"

\* C8: for an absent (undefined or null) document flattenHit returns a map
\* with no key at all and does not raise.
C8_AbsentHitEmptyMap ==
  ~Truthy(hit) =>
    /\ pc # "raised"
    /\ pc = "done" => (result.t = "object" /\ KeysOf(heap, result.a) = {})

\* flattenHit has returned for a null document
C8_Witness == pc = "done" /\ hit = Null /\ result = Ref(FlatAddr)

\* C9: no step of flattenHit changes an object of the document (the hit, its
\* source tree, its fields table and their arrays), and the map returned is
\* an object that did not exist before the call.
C9_InputsUnchanged ==
  /\ [](pc = "call" => FlatAddr \notin DOMAIN heap)
  /\ [](pc = "done" => result = Ref(FlatAddr))
  /\ [][\A a \in DOMAIN heap : a # FlatAddr => heap'[a] = heap[a]]_vars

\* a returned map with keys from the source, the fields table and the meta fields
C9_Witness ==
  /\ Returned
  /\ ForInKeys(heap, HitSource) # <<>>
  /\ Truthy(HitFields) /\ ForInKeys(heap, HitFields) # <<>>
  /\ Cardinality(KeysOf(heap, result.a)) >= 4

\* C10: only the exact path is excluded: an object under a key that is not
\* the geometry path is recursed into, so that each of its members that is a
\* leaf or sits at the geometry path is stored under key.member.
C10_ExactPathOnly ==
  AfterSourceWalk =>
    \A i \in 1..Len(ForInKeys(heap, HitSource)) :
      LET key == ForInKeys(heap, HitSource)[i]
          inner == GetProp(heap, HitSource, key)
      IN (key # geometryField /\ IsPlainObject(heap, inner)) =>
           \A j \in 1..Len(ForInKeys(heap, inner)) :
             LET member == key \o "." \o ForInKeys(heap, inner)[j]
                 current == GetProp(heap, inner, ForInKeys(heap, inner)[j])
             IN (member = geometryField \/ ~IsPlainObject(heap, current))
                  => <<member, current>> \in PairsOf(heap, flat.a)

RECURSIVE PlainWalk(_, _, _)
\* the pre-order dotted-path traversal that treats no path specially
PlainWalk(h, v, path) ==
  UNION { LET newKey == DottedPath(path, ForInKeys(h, v)[i])
              current == GetProp(h, v, ForInKeys(h, v)[i])
          IN IF IsPlainObject(h, current)
             THEN PlainWalk(h, current, newKey)
             ELSE {<<newKey, current>>}
          : i \in 1..Len(ForInKeys(h, v)) }

\* C11: every scalar, array and null of the source tree is stored as it is
\* under its full dotted path, and no key is made for an index of an array.
C11_LeavesStoredAsIs ==
  AfterSourceWalk =>
    \A l \in Walk(heap, HitSource, "", geometryField) :
      ~IsPlainObject(heap, l[2]) =>
        /\ l \in PairsOf(heap, flat.a)
        /\ \A i \in 1..Len(ForInKeys(heap, l[2])) :
             (l[1] \o "." \o ForInKeys(heap, l[2])[i]) \notin KeysOf(heap, flat.a)

\* C12: with the empty string as geometry field the source walk produces the
\* plain full traversal of the source tree, also when the root has a key "".
C12_EmptyGeometryField ==
  (AfterSourceWalk /\ geometryField = "")
    => PairsOf(heap, flat.a) = PlainWalk(heap, HitSource, "")

\* C13: a fields entry whose key is the geometry field and whose value is an
\* array is collapsed to its first element in the returned map, whatever the
\* source walk stored under that key.
C13_FieldsIgnoreGeometry ==
  (Returned /\ geometryField \notin {"_index", "_id"}
            /\ IsArray(heap, GetProp(heap, HitFields, geometryField)))
    => <<geometryField, GetProp(heap, GetProp(heap, HitFields, geometryField), "0")>>
         \in PairsOf(heap, result.a)

\* a returned map whose geometry key was written by the source walk and then
\* replaced by the first element of the fields entry
C13_Witness ==
  /\ Returned
  /\ geometryField = "geom"
  /\ GetProp(heap, HitSource, "geom") \in {Null, Ref("hit/_source/geom")}
  /\ IsArray(heap, GetProp(heap, HitFields, "geom"))
  /\ <<"geom", Num("1")>> \in PairsOf(heap, result.a)

\* C15: the outcome of flattenHit is the same for every geometry field: the
\* call made with any other geometry path on the same document returns the
\* same keys with the same values, and raises exactly when this call raised.
C15_GeometryFieldIrrelevant ==
  pc \in {"done", "raised"} =>
    \A g2 \in GeometryFields :
      LET r == flattenHit(heap, FlatAddr, g2, hit)
      IN /\ r.raised = (pc = "raised")
         /\ pc = "done" => PairsOf(r.heap, FlatAddr) = PairsOf(heap, result.a)

\* a returned map of a document that has a nested object under the geometry
\* path and another nested object beside it
C15_Witness ==
  /\ Returned
  /\ geometryField = "geom"
  /\ IsPlainObject(heap, GetProp(heap, HitSource, "geom"))
  /\ IsPlainObject(heap, GetProp(heap, HitSource, "a"))
  /\ ForInKeys(heap, GetProp(heap, HitSource, "a")) # <<>>

\* C16: the steps run in the order source walk, fields table, meta fields;
\* a key written by both the source walk and the fields table holds the
\* value of the fields table, and a fields entry is overridden by nothing
\* but _index and _id.
C16_StepOrder ==
  /\ [][/\ pc = "source" => pc' \in {"fields", "raised"}
        /\ pc = "fields" => pc' \in {"meta", "raised"}
        /\ pc = "meta" => pc' = "return"]_vars
  /\ [](Returned /\ Truthy(HitFields) =>
          \A i \in 1..Len(ForInKeys(heap, HitFields)) :
            LET key == ForInKeys(heap, HitFields)[i]
            IN <<key, ExpectedField(key)>> \notin PairsOf(heap, result.a)
                 => key \in {"_index", "_id"})

\* a returned map where the source and the fields table both have the key a
\* and the value kept is the one of the fields table
C16_Witness ==
  /\ Returned
  /\ GetProp(heap, HitSource, "a") = Null
  /\ IsArray(heap, GetProp(heap, HitFields, "a"))
  /\ <<"a", Num("1")>> \in PairsOf(heap, result.a)

\* the outcome of a call that is over: whether it raised, and the keys and
\* values of the map it returned
Outcome(h, callPc, addr) ==
  [raised |-> callPc = "raised",
   map |-> IF callPc = "done" THEN PairsOf(h, addr) ELSE {}]

\* the outcome of flattenHit(geomField, hitv) run on its own
OutcomeAlone(h, geomField, hitv) ==
  LET r == flattenHit(h, FlatAddr, geomField, hitv)
  IN [raised |-> r.raised, map |-> IF r.raised THEN {} ELSE PairsOf(r.heap, FlatAddr)]

\* C14: in every interleaving of the steps of two calls, each call that is
\* over has the outcome it has when it runs alone on its document.
C14_CallsIndependent ==
  /\ pc \in {"done", "raised"} =>
       Outcome(heap, pc, flat.a) = OutcomeAlone(heap, geometryField, hit)
  /\ second.pc \in {"done", "raised"} =>
       Outcome(heap, second.pc, second.flat.a)
         = OutcomeAlone(heap, second.geometryField, second.hit)

\* both calls have returned, the second one having started and finished
\* while the first was between its source walk and its fields table
C14_Witness ==
  /\ pc = "fields" /\ second.pc = "done"
  /\ second.hit # hit
  /\ Cardinality(KeysOf(heap, flat.a)) >= 1
  /\ Cardinality(KeysOf(heap, second.result.a)) >= 4


\* ------------------------------------------------- claims about CaseService
CalledGetAllCaseComments == call.pc = "getAllCaseComments" /\ finds # <<>>

\* the comments of the store that reference one of the cases asked for
CommentsOfCases(ids) ==
  SelectSeq(store.comments,
            LAMBDA c : \E i \in 1..Len(ids) : \E j \in 1..Len(c.references) :
                         c.references[j] = Reference(CASE_SAVED_OBJECT, ids[i]))

IsCaseComment(c) == c.attributes.associationType = "case"

\* C17: in getAllCaseComments with includeSubCaseComments false and a
\* caller-supplied options.filter, the filter sent to the saved-objects find
\* is the conjunction of options.filter and associationType = case, so that
\* no comment of a sub case is returned
C17_FilterIsConjunction ==
  (/\ CalledGetAllCaseComments
   /\ ~call.includeSubCaseComments
   /\ NotNullish(call.options, "filter"))
  => /\ \A i \in 1..Len(finds) :
          finds[i].filter = NodeAnd(<<call.options.filter, AssociationTypeFilter>>)
     /\ \A i \in 1..Len(call.ret.saved_objects) : IsCaseComment(call.ret.saved_objects[i])

CalledFindCasesGroupedByID == call.pc = "findCasesGroupedByID"

\* whether a saved object satisfies the filter of the options, if they have one
Passes(options, so) == NotNullish(options, "filter") => Matches(options.filter, so)

\* the cases of the store the case options of the call select
FoundCases == SelectSeq(store.cases, LAMBDA c : Passes(call.caseOptions, c))

IsCollection(c) == c.attributes.type = "collection"

\* the sub cases of the store that the sub-case options select and whose
\* first reference is the case
SubCasesOfCase(id) ==
  IF connector /\ call.subCaseOptions # Undefined
  THEN SelectSeq(store.subCases,
                 LAMBDA sub : /\ Passes(call.subCaseOptions, sub)
                              /\ Len(sub.references) > 0
                              /\ sub.references[1] = Reference(CASE_SAVED_OBJECT, id))
  ELSE <<>>

\* the comments of the store that reference the case
CommentsOfCase(id) == CommentsOfCases(<<id>>)

\* C19: findCasesGroupedByID puts a found case into the returned map iff it
\* is an individual case, or it is a collection with at least one sub case
\* in the sub-case result, or caseOptions sets no status filter; every case
\* of the map carries comment and alert totals, which are 0 when no comment
\* references the case
C19_MapOfFoundCases ==
  CalledFindCasesGroupedByID =>
    LET casesMap == call.ret.casesMap
    IN /\ \A id \in DOMAIN casesMap : \E i \in 1..Len(FoundCases) : FoundCases[i].id = id
       /\ \A i \in 1..Len(FoundCases) :
            LET c == FoundCases[i]
            IN (c.id \in DOMAIN casesMap)
                 <=> \/ c.attributes.type = "individual"
                     \/ IsCollection(c) /\ SubCasesOfCase(c.id) # <<>>
                     \/ ~Has(call.caseOptions, "status")
       /\ \A i \in 1..Len(FoundCases) :
            (IsCollection(FoundCases[i]) /\ SubCasesOfCase(FoundCases[i].id) = <<>>)
              => (FoundCases[i].id \notin DOMAIN casesMap <=> Has(call.caseOptions, "status"))
       /\ \A id \in DOMAIN casesMap :
            /\ casesMap[id].id = id
            /\ \A i \in 1..Len(FoundCases) :
                 (FoundCases[i].id = id /\ IsCollection(FoundCases[i])
                    /\ SubCasesOfCase(id) # <<>>)
                   => IdsOf(casesMap[id].subCases) = IdsOf(SubCasesOfCase(id))
            /\ casesMap[id].totalComment = Len(SelectSeq(CommentsOfCase(id), IsCaseComment))
            /\ CommentsOfCase(id) = <<>>
                 => casesMap[id].totalComment = 0 /\ casesMap[id].totalAlerts = 0

\* a status filter is set, a collection without sub cases was found and left
\* out, and a collection with a sub case was found and put into the map
C19_Witness ==
  /\ CalledFindCasesGroupedByID
  /\ Has(call.caseOptions, "status")
  /\ \E i \in 1..Len(FoundCases) :
       /\ IsCollection(FoundCases[i])
       /\ FoundCases[i].id \notin DOMAIN call.ret.casesMap
  /\ \E i \in 1..Len(FoundCases) :
       /\ IsCollection(FoundCases[i])
       /\ FoundCases[i].id \in DOMAIN call.ret.casesMap
       /\ SubCasesOfCase(FoundCases[i].id) # <<>>


CalledFindCaseStatusStats == call.pc = "findCaseStatusStats"

\* the sub cases of the store that the sub-case options select and that
\* reference one of the collections found
SubCasesOfFoundCollections ==
  SelectSeq(store.subCases,
            LAMBDA sub :
              /\ Passes(call.subCaseOptions, sub)
              /\ \E i \in 1..Len(FoundCases), j \in 1..Len(sub.references) :
                   /\ IsCollection(FoundCases[i])
                   /\ sub.references[j] = Reference(CASE_SAVED_OBJECT, FoundCases[i].id))

\* the sub cases are counted when the connector is enabled and sub-case
\* options are given
SubCasesCounted == connector /\ call.subCaseOptions # Undefined

\* C20: findCaseStatusStats returns the number of matching cases that are
\* not collections plus the number of matching sub cases of the matching
\* collections; collections are never counted; the sub-case term is 0 when
\* the case connector is disabled, when subCaseOptions is absent, or when no
\* matching case is a collection, and then no sub-case query is issued
C20_StatsTotal ==
  CalledFindCaseStatusStats =>
    LET nonCollections == SelectSeq(FoundCases, LAMBDA c : ~IsCollection(c))
        collections == SelectSeq(FoundCases, IsCollection)
        subCaseFinds == SelectSeq(finds, LAMBDA o : o.type = SUB_CASE_SAVED_OBJECT)
    IN /\ call.ret = Len(nonCollections)
                       + (IF SubCasesCounted THEN Len(SubCasesOfFoundCollections) ELSE 0)
       /\ (~SubCasesCounted \/ collections = <<>>)
            => call.ret = Len(nonCollections) /\ subCaseFinds = <<>>
       /\ (SubCasesCounted /\ collections # <<>>) => subCaseFinds # <<>>

\* a call whose own page and perPage would have hidden a case, and whose
\* total counts a case that is no collection and a sub case of a collection
C20_Witness ==
  /\ CalledFindCaseStatusStats
  /\ Has(call.caseOptions, "perPage")
  /\ SubCasesCounted
  /\ SubCasesOfFoundCollections # <<>>
  /\ \E i \in 1..Len(FoundCases) : ~IsCollection(FoundCases[i])
  /\ call.ret = 2


\* a call that reached findSubCases or getAllComments with the options of
\* the caller
CalledPagedFind ==
  /\ call.pc \in {"findSubCases", "getAllSubCaseComments", "getAllCaseComments"}
  /\ finds # <<>>

\* the options of the call define page or perPage
CallerGavePaging == Has(call.options, "page") \/ Has(call.options, "perPage")

\* the caller's page and perPage, where given, are those of the find
CallerValues(o) ==
  /\ Has(call.options, "page") => o.page = call.options.page
  /\ Has(call.options, "perPage") => o.perPage = call.options.perPage

\* the count query and the query for everything, but for the fields of the
\* count query
CountThenAll ==
  /\ Len(finds) = 2
  /\ finds[1].page = 1 /\ finds[1].perPage = 1
  /\ finds[2].page = 1 /\ finds[2].perPage = call.ret.total
  /\ Len(call.ret.saved_objects) = call.ret.total

\* C21, as stated: findSubCases and getAllComments issue exactly one find
\* with the caller's values when options.page or options.perPage is
\* defined; otherwise exactly two finds in order, a count query (page 1,
\* perPage 1, no fields) and a query with page 1 and perPage the total of
\* the first, which retrieves all matching objects
C21_CallerPagingNoFields ==
  CalledPagedFind =>
    IF CallerGavePaging
    THEN Len(finds) = 1 /\ CallerValues(finds[1])
    ELSE CountThenAll /\ finds[1].fields = <<>>

\* C21, amended: as above, but the count query asks for no fields only when
\* the caller's options name none; fields given by the caller are spread
\* over the defaults and sent with the count query too
C21_CallerPaging ==
  CalledPagedFind =>
    IF CallerGavePaging
    THEN Len(finds) = 1 /\ CallerValues(finds[1])
    ELSE /\ CountThenAll
         /\ finds[1].fields = IF Has(call.options, "fields") THEN call.options.fields
                               ELSE <<>>

\* a call of findSubCases without paging that retrieved two sub cases with
\* its second find
C21_Witness ==
  /\ call.pc = "findSubCases"
  /\ ~CallerGavePaging
  /\ Len(finds) = 2
  /\ finds[2].perPage = 2
  /\ Len(call.ret.saved_objects) = 2


CalledFindSubCasesGroupByCase == call.pc = "findSubCasesGroupByCase"

\* the sub cases the find of the call returns: those of the store that the
\* options select and that reference one of the ids
ReturnedSubCases ==
  SelectSeq(store.subCases,
            LAMBDA sub :
              /\ Passes(call.options, sub)
              /\ \E i \in 1..Len(call.ids), j \in 1..Len(sub.references) :
                   sub.references[j] = Reference(CASE_SAVED_OBJECT, call.ids[i]))

\* the returned sub cases whose first reference is the id
ReturnedSubCasesOf(id) ==
  SelectSeq(ReturnedSubCases,
            LAMBDA sub : Len(sub.references) > 0 /\ sub.references[1].id = id)

\* C22: findSubCasesGroupByCase returns an empty map with page, perPage and
\* total 0 and issues no find when options is undefined or ids is empty;
\* otherwise every returned sub case with a reference appears exactly once
\* in the map, in the list keyed by the id of its first reference, in
\* result order, and a sub case without references is in no list
C22_GroupedByFirstReference ==
  CalledFindSubCasesGroupByCase =>
    LET subCasesMap == call.ret.subCasesMap
    IN IF call.options = Undefined \/ call.ids = <<>>
       THEN /\ subCasesMap = <<>>
            /\ call.ret.page = 0 /\ call.ret.perPage = 0 /\ call.ret.total = 0
            /\ finds = <<>>
       ELSE /\ finds # <<>>
            /\ call.ret.total = Len(ReturnedSubCases)
            /\ DOMAIN subCasesMap = {id \in {CaseId(1), CaseId(2)} :
                                       ReturnedSubCasesOf(id) # <<>>}
            /\ \A id \in DOMAIN subCasesMap :
                 IdsOf(subCasesMap[id]) = IdsOf(ReturnedSubCasesOf(id))
            /\ \A i \in 1..Len(ReturnedSubCases) :
                 LET sub == ReturnedSubCases[i]
                 IN Cardinality({<<id, k>> \in (DOMAIN subCasesMap) \X (1..(MaxObjects + 1)) :
                                   k <= Len(subCasesMap[id])
                                   /\ subCasesMap[id][k].id = sub.id})
                      = IF Len(sub.references) > 0 THEN 1 ELSE 0

\* two keys in the map, and two sub cases in the list of one of them
C22_Witness ==
  /\ CalledFindSubCasesGroupByCase
  /\ Cardinality(DOMAIN call.ret.subCasesMap) = 2
  /\ \E id \in DOMAIN call.ret.subCasesMap : Len(call.ret.subCasesMap[id]) = 2


CalledGetCaseCommentStats == call.pc = "getCaseCommentStats"

\* the reference a comment of the case or sub case carries
StatsReference(id) ==
  Reference(IF call.associationType = "case" THEN CASE_SAVED_OBJECT
            ELSE SUB_CASE_SAVED_OBJECT, id)

\* the comments the query of the id finds: the comments of the case that
\* are no comments of a sub case, or the comments of the sub case
CommentsCounted(id) ==
  SelectSeq(store.comments,
            LAMBDA c : /\ \E j \in 1..Len(c.references) : c.references[j] = StatsReference(id)
                       /\ call.associationType = "case" => IsCaseComment(c))

\* C23: getCaseCommentStats returns two empty maps without a find when ids
\* is empty; otherwise it issues one comment query per id (page 1, perPage
\* 1), in the order of ids, and then the alerts query over all ids, which
\* getAllComments carries out as a count find and a find for everything;
\* commentTotals maps an id to the total of its query exactly when that
\* query found a comment, so that an id without comments is no key of it
C23_CommentTotals ==
  CalledGetCaseCommentStats =>
    LET n == Len(call.ids)
    IN IF n = 0
       THEN /\ call.ret.commentTotals = <<>> /\ call.ret.alertTotals = <<>>
            /\ finds = <<>>
       ELSE /\ Len(finds) = n + 2
            /\ \A i \in 1..n :
                 /\ finds[i].page = 1 /\ finds[i].perPage = 1
                 /\ finds[i].hasReference = <<StatsReference(call.ids[i])>>
            /\ \A i \in (n + 1)..Len(finds) :
                 finds[i].hasReference = [k \in 1..n |-> StatsReference(call.ids[k])]
            /\ DOMAIN call.ret.commentTotals =
                 {call.ids[i] : i \in {k \in 1..n : CommentsCounted(call.ids[k]) # <<>>}}
            /\ \A id \in DOMAIN call.ret.commentTotals :
                 call.ret.commentTotals[id] = Len(CommentsCounted(id))

\* statistics asked for two ids, of which one has two comments and the
\* other none
C23_Witness ==
  /\ CalledGetCaseCommentStats
  /\ Len(call.ids) = 2
  /\ \E i, j \in 1..2 :
       /\ call.ids[i] \in DOMAIN call.ret.commentTotals
       /\ call.ret.commentTotals[call.ids[i]] = 2
       /\ call.ids[j] \notin DOMAIN call.ret.commentTotals

====
